---- MODULE Spec2Model ----
(***************************************************************************)
(* kv-gateway (app/main.py): a FastAPI facade over a Redis store.          *)
(*                                                                         *)
(* A string is held run-length encoded: a sequence of runs <<c, n>>, the   *)
(* character c repeated n >= 1 times, adjacent runs of different           *)
(* characters; thirty-two "a" are <<<<"a", 32>>>>.  A request body is a    *)
(* string of bytes; the character BadByte stands for a byte sequence that  *)
(* is not valid UTF-8.  A JSON value of a bulk payload is a record         *)
(* [isStr, s]: a JSON string s, or a non-string JSON value.                *)
(*                                                                         *)
(* The handlers are "async def" but call the synchronous redis client, so  *)
(* one worker process runs a handler without interleaving; several worker  *)
(* processes share the store, and their store calls interleave.            *)
(***************************************************************************)
EXTENDS Integers, Sequences, FiniteSets, Bags, TLC

\* ---------------------------------------------------------------- bounds
NumWorkers == 2
MaxBulk == 2
MaxCounter == 1
MaxRate == 93
MaxDeletes == 4

\* ------------------------------------------------------------- constants
\* {32} of HEX_128_RE
HexLen == 32

\* --------------------------------------------------------------- strings
HexDigits == {"0", "1", "2", "3", "4", "5", "6", "7", "8", "9"}
HexLowerLetters == {"a", "b", "c", "d", "e", "f"}
HexUpperLetters == {"A", "B", "C", "D", "E", "F"}

\* the character class [A-Fa-f0-9] of HEX_128_RE
HexClass == HexUpperLetters \cup HexLowerLetters \cup HexDigits

\* whitespace removed by str.strip()
Whitespace == {" ", "\t", "\n", "\r"}

\* a byte that is not valid UTF-8
BadByte == "<FF>"

\* c * n
Rep(c, n) == IF n = 0 THEN <<>> ELSE <<<<c, n>>>>

\* len(s)
RECURSIVE StrLen(_)
StrLen(s) == IF s = <<>> THEN 0 ELSE s[1][2] + StrLen(Tail(s))

\* a + b
Concat(a, b) ==
    IF a = <<>> THEN b
    ELSE IF b = <<>> THEN a
    ELSE IF a[Len(a)][1] = b[1][1]
         THEN SubSeq(a, 1, Len(a) - 1)
                  \o <<<<b[1][1], a[Len(a)][2] + b[1][2]>>>> \o Tail(b)
    ELSE a \o b

\* s[0] and s[1:] of a non-empty string
First(s) == s[1][1]
Rest(s) == IF s[1][2] = 1 THEN Tail(s) ELSE <<<<s[1][1], s[1][2] - 1>>>> \o Tail(s)

\* str.lower() on one character (ASCII letters in use)
LowerChar(c) ==
    CASE c = "A" -> "a" [] c = "B" -> "b" [] c = "C" -> "c"
      [] c = "D" -> "d" [] c = "E" -> "e" [] c = "F" -> "f"
      [] c = "G" -> "g" [] c = "Z" -> "z"
      [] OTHER -> c

\* str.lower()
RECURSIVE Lower(_)
Lower(s) ==
    IF s = <<>> THEN <<>>
    ELSE Concat(<<<<LowerChar(s[1][1]), s[1][2]>>>>, Lower(Tail(s)))

\* HEX_128_RE.fullmatch(s): exactly HexLen characters, all of the class
HEX_128_RE(s) == StrLen(s) = HexLen /\ \A i \in 1..Len(s) : s[i][1] \in HexClass

\* a JSON / Python value: a str, or something else (int, None, list, ...)
Str(s) == [isStr |-> TRUE, s |-> s]
NonStr == [isStr |-> FALSE, s |-> <<>>]

\* normalize_hex with the lowering left out (a plausible slip)
normalize_hex_nolower(value) ==
    IF ~value.isStr \/ ~HEX_128_RE(value.s)
    THEN [ok |-> FALSE, v |-> <<>>]
    ELSE [ok |-> TRUE, v |-> value.s]

\* normalize_hex checking the length only
normalize_hex_lenonly(value) ==
    IF ~value.isStr \/ StrLen(value.s) # HexLen
    THEN [ok |-> FALSE, v |-> <<>>]
    ELSE [ok |-> TRUE, v |-> Lower(value.s)]

\* normalize_hex: ok = FALSE is HTTPException(400, "Invalid hex format")
normalize_hex(value) ==
    IF ~value.isStr \/ ~HEX_128_RE(value.s)
    THEN [ok |-> FALSE, v |-> <<>>]
    ELSE [ok |-> TRUE, v |-> Lower(value.s)]

\* bytes.decode(): fails (UnicodeDecodeError) on a byte that is not UTF-8
Decodable(body) == \A i \in 1..Len(body) : body[i][1] # BadByte

RECURSIVE LStrip(_)
LStrip(s) == IF s # <<>> /\ s[1][1] \in Whitespace THEN LStrip(Tail(s)) ELSE s

RECURSIVE RStrip(_)
RStrip(s) ==
    IF s # <<>> /\ s[Len(s)][1] \in Whitespace
    THEN RStrip(SubSeq(s, 1, Len(s) - 1))
    ELSE s

\* str.strip()
Strip(s) == RStrip(LStrip(s))

\* ----------------------------------------------------------------- store
\* The Redis store: a mapping from the keys it holds to their values.
StoreGet(st, k) == IF k \in DOMAIN st THEN <<st[k]>> ELSE <<>>

StoreSet(st, k, v) == [x \in DOMAIN st \cup {k} |-> IF x = k THEN v ELSE st[x]]

StoreExists(st, k) == IF k \in DOMAIN st THEN 1 ELSE 0

StoreDelete(st, k) == [x \in DOMAIN st \ {k} |-> st[x]]

\* pipe.execute(): the buffered SET commands, applied in order
RECURSIVE StoreExec(_, _)
StoreExec(st, cmds) ==
    IF cmds = <<>> THEN st
    ELSE StoreExec(StoreSet(st, Head(cmds)[1], Head(cmds)[2]), Tail(cmds))

StoreDbsize(st) == Cardinality(DOMAIN st)

\* one store call as the transport saw it: the command, the keys and values
\* passed, whether it came back (ok) or raised RedisError, and the reply
Call(cmd, args, ok, reply) ==
    [cmd |-> cmd, args |-> args, ok |-> ok, reply |-> reply]

\* pipe.set(key, value) buffered in order; flattened for the call record
RECURSIVE Flatten(_)
Flatten(cmds) ==
    IF cmds = <<>> THEN <<>> ELSE Head(cmds) \o Flatten(Tail(cmds))

\* -------------------------------------------------------------- handlers
\* What a handler leaves behind: the HTTP status and detail, the returned
\* value / count / rate, the store calls it made, and the store after it.
Result(status, detail, log, st) ==
    [status |-> status, detail |-> detail, value |-> <<>>, stored |-> 0,
     scanned |-> 0, rate |-> 0, log |-> log, store |-> st]

InvalidFormat(st) == Result(400, "Invalid hex format", <<>>, st)
Unavailable(log, st) == Result(503, "Redis unavailable", log, st)

\* health pinging once more after a failed ping
health_retry(st, isUp) ==
    IF ~isUp
    THEN Unavailable(<<Call("PING", <<>>, FALSE, <<>>),
                       Call("PING", <<>>, FALSE, <<>>)>>, st)
    ELSE Result(200, "", <<Call("PING", <<>>, TRUE, <<>>)>>, st)

\* health(): ping
health(st, isUp) ==
    IF ~isUp THEN Unavailable(<<Call("PING", <<>>, FALSE, <<>>)>>, st)
    ELSE Result(200, "", <<Call("PING", <<>>, TRUE, <<>>)>>, st)

\* put_value storing the body as received, validating the stripped text only
put_value_rawbody(key, body, st, isUp) ==
    LET k == normalize_hex(Str(key))
        v == normalize_hex(Str(Strip(body)))
    IN  IF ~k.ok THEN InvalidFormat(st)
        ELSE IF ~Decodable(body) THEN Result(500, "Internal Server Error", <<>>, st)
        ELSE IF ~v.ok THEN InvalidFormat(st)
        ELSE IF ~isUp
             THEN Unavailable(<<Call("SET", <<k.v, body>>, FALSE, <<>>)>>, st)
        ELSE Result(201, "", <<Call("SET", <<k.v, body>>, TRUE, <<>>)>>,
                    StoreSet(st, k.v, body))

\* put_value: normalize key; decode and strip the body; normalize it; SET
put_value(key, body, st, isUp) ==
    LET k == normalize_hex(Str(key))
        v == normalize_hex(Str(Strip(body)))
    IN  IF ~k.ok THEN InvalidFormat(st)
        ELSE IF ~Decodable(body) THEN Result(500, "Internal Server Error", <<>>, st)
        ELSE IF ~v.ok THEN InvalidFormat(st)
        ELSE IF ~isUp
             THEN Unavailable(<<Call("SET", <<k.v, v.v>>, FALSE, <<>>)>>, st)
        ELSE Result(201, "", <<Call("SET", <<k.v, v.v>>, TRUE, <<>>)>>,
                    StoreSet(st, k.v, v.v))

\* get_value treating a failed lookup as an absent key
get_value_err404(key, st, isUp) ==
    LET k == normalize_hex(Str(key))
        got == StoreGet(st, k.v)
    IN  IF ~k.ok THEN InvalidFormat(st)
        ELSE IF ~isUp
             THEN Result(404, "Key not found",
                         <<Call("GET", <<k.v>>, FALSE, <<>>)>>, st)
        ELSE IF got = <<>>
             THEN Result(404, "Key not found",
                         <<Call("GET", <<k.v>>, TRUE, got)>>, st)
        ELSE [Result(200, "", <<Call("GET", <<k.v>>, TRUE, got)>>, st)
                 EXCEPT !.value = got[1]]

\* get_value: normalize key; GET; None is 404
get_value(key, st, isUp) ==
    LET k == normalize_hex(Str(key))
        got == StoreGet(st, k.v)
    IN  IF ~k.ok THEN InvalidFormat(st)
        ELSE IF ~isUp THEN Unavailable(<<Call("GET", <<k.v>>, FALSE, <<>>)>>, st)
        ELSE IF got = <<>>
             THEN Result(404, "Key not found",
                         <<Call("GET", <<k.v>>, TRUE, got)>>, st)
        ELSE [Result(200, "", <<Call("GET", <<k.v>>, TRUE, got)>>, st)
                 EXCEPT !.value = got[1]]

\* status of a request that has more store calls to make
Pending == 0

\* delete_value, first store call: normalize key; EXISTS; 0 is 404
delete_value_check(key, st, isUp) ==
    LET k == normalize_hex(Str(key))
        n == StoreExists(st, k.v)
    IN  IF ~k.ok THEN InvalidFormat(st)
        ELSE IF ~isUp
             THEN Unavailable(<<Call("EXISTS", <<k.v>>, FALSE, <<>>)>>, st)
        ELSE IF n = 0
             THEN Result(404, "Key not found",
                         <<Call("EXISTS", <<k.v>>, TRUE, <<n>>)>>, st)
        ELSE Result(Pending, "", <<Call("EXISTS", <<k.v>>, TRUE, <<n>>)>>, st)

\* delete_value reporting a delete that removed nothing as an absent key
delete_value_delete_404(k, log, st, isUp) ==
    LET n == StoreExists(st, k)
    IN  IF ~isUp
        THEN Unavailable(log \o <<Call("DEL", <<k>>, FALSE, <<>>)>>, st)
        ELSE IF n # 1
             THEN Result(404, "Key not found",
                         log \o <<Call("DEL", <<k>>, TRUE, <<n>>)>>, st)
        ELSE Result(200, "", log \o <<Call("DEL", <<k>>, TRUE, <<n>>)>>,
                    StoreDelete(st, k))

\* delete_value taking any reply of DEL for a success
delete_value_delete_unchecked(k, log, st, isUp) ==
    LET n == StoreExists(st, k)
    IN  IF ~isUp
        THEN Unavailable(log \o <<Call("DEL", <<k>>, FALSE, <<>>)>>, st)
        ELSE Result(200, "", log \o <<Call("DEL", <<k>>, TRUE, <<n>>)>>,
                    StoreDelete(st, k))

\* delete_value leaving the entry in the store
delete_value_delete_keep(k, log, st, isUp) ==
    LET n == StoreExists(st, k)
    IN  IF ~isUp
        THEN Unavailable(log \o <<Call("DEL", <<k>>, FALSE, <<>>)>>, st)
        ELSE IF n # 1
             THEN Result(500, "Failed to delete key",
                         log \o <<Call("DEL", <<k>>, TRUE, <<n>>)>>, st)
        ELSE Result(200, "", log \o <<Call("DEL", <<k>>, TRUE, <<n>>)>>, st)

\* delete_value, second store call: DEL; a count other than 1 is 500
delete_value_delete(k, log, st, isUp) ==
    LET n == StoreExists(st, k)
    IN  IF ~isUp
        THEN Unavailable(log \o <<Call("DEL", <<k>>, FALSE, <<>>)>>, st)
        ELSE IF n # 1
             THEN Result(500, "Failed to delete key",
                         log \o <<Call("DEL", <<k>>, TRUE, <<n>>)>>, st)
        ELSE Result(200, "", log \o <<Call("DEL", <<k>>, TRUE, <<n>>)>>,
                    StoreDelete(st, k))

\* the loop of bulk_put: normalize key, normalize value, pipe.set(key, value),
\* pair by pair in the mapping's order; ok = FALSE when a normalize raised
RECURSIVE BufferPairs(_, _)
BufferPairs(payload, cmds) ==
    IF payload = <<>> THEN [ok |-> TRUE, cmds |-> cmds]
    ELSE LET key == normalize_hex(Str(Head(payload)[1]))
             value == normalize_hex(Head(payload)[2])
         IN  IF ~key.ok \/ ~value.ok THEN [ok |-> FALSE, cmds |-> cmds]
             ELSE BufferPairs(Tail(payload), Append(cmds, <<key.v, value.v>>))

\* bulk_put sending each SET as it is validated instead of buffering it
bulk_put_unbuffered(payload, st, isUp) ==
    LET buf == BufferPairs(payload, <<>>)
        exec == Call("EXEC", Flatten(buf.cmds), isUp, <<>>)
    IN  IF payload = <<>> THEN Result(400, "Empty payload", <<>>, st)
        ELSE IF ~isUp THEN Unavailable(<<exec>>, st)
        ELSE IF ~buf.ok
             THEN Result(400, "Invalid hex format",
                         IF buf.cmds = <<>> THEN <<>> ELSE <<exec>>,
                         StoreExec(st, buf.cmds))
        ELSE [Result(200, "", <<exec>>, StoreExec(st, buf.cmds))
                 EXCEPT !.stored = Len(payload)]

\* bulk_put validating (and contacting the store) before the emptiness check
bulk_put_latecheck(payload, st, isUp) ==
    LET buf == BufferPairs(payload, <<>>)
        exec == Call("EXEC", Flatten(buf.cmds), isUp, <<>>)
    IN  IF ~buf.ok THEN InvalidFormat(st)
        ELSE IF ~isUp THEN Unavailable(<<exec>>, st)
        ELSE IF payload = <<>> THEN Result(400, "Empty payload", <<exec>>, st)
        ELSE [Result(200, "", <<exec>>, StoreExec(st, buf.cmds))
                 EXCEPT !.stored = Len(payload)]

\* bulk_put: empty payload is 400; validate and buffer every pair; execute
\* the pipeline once; report len(payload)
bulk_put(payload, st, isUp) ==
    LET buf == BufferPairs(payload, <<>>)
        exec == Call("EXEC", Flatten(buf.cmds), isUp, <<>>)
    IN  IF payload = <<>> THEN Result(400, "Empty payload", <<>>, st)
        ELSE IF ~buf.ok THEN InvalidFormat(st)
        ELSE IF ~isUp THEN Unavailable(<<exec>>, st)
        ELSE [Result(200, "", <<exec>>, StoreExec(st, buf.cmds))
                 EXCEPT !.stored = Len(payload)]

\* get_key_count: dbsize
get_key_count(st, isUp) ==
    IF ~isUp THEN Unavailable(<<Call("DBSIZE", <<>>, FALSE, <<>>)>>, st)
    ELSE [Result(200, "", <<Call("DBSIZE", <<>>, TRUE, <<StoreDbsize(st)>>)>>, st)
             EXCEPT !.stored = StoreDbsize(st)]

\* get_redis_info: info(section) or info(); the mapping is passed through
get_redis_info(section, st, isUp) ==
    IF ~isUp THEN Unavailable(<<Call("INFO", <<section>>, FALSE, <<>>)>>, st)
    ELSE Result(200, "", <<Call("INFO", <<section>>, TRUE, <<>>)>>, st)

\* get_memory_stats: info("memory"), a fixed subset of its fields
get_memory_stats(st, isUp) ==
    IF ~isUp THEN Unavailable(<<Call("INFO", <<"memory">>, FALSE, <<>>)>>, st)
    ELSE Result(200, "", <<Call("INFO", <<"memory">>, TRUE, <<>>)>>, st)

\* ---------------------------------------------------------------- floats
\* A positive Python float is m * 2^e with 2^(MantDig-1) <= m < 2^MantDig,
\* held as [m, e], m a sequence of limbs to the base Base, the most
\* significant first: a leading 1 and (MantDig - 1) / LimbBits full limbs.
\* Every operation rounds its exact result to the nearest float, ties to
\* even.
MantDig == 53
LimbBits == 13
Base == 2^LimbBits

\* limbs with every limb but the first brought below Base
RECURSIVE Carry(_, _, _, _)
Carry(l, i, c, out) ==
    IF i = 1 THEN <<l[1] + c>> \o out
    ELSE Carry(l, i - 1, (l[i] + c) \div Base, <<(l[i] + c) % Base>> \o out)

LimbsTimes100(l) == Carry([i \in 1..Len(l) |-> 100 * l[i]], Len(l), 0, <<>>)

LimbsInc(l) == Carry(l, Len(l), 1, <<>>)

RECURSIVE LimbsToNat(_, _, _)
LimbsToNat(l, i, acc) ==
    IF i > Len(l) THEN acc ELSE LimbsToNat(l, i + 1, acc * Base + l[i])

\* the limbs of l / 2^s and the remainder
RECURSIVE Shift(_, _, _, _, _)
Shift(l, s, i, rem, out) ==
    IF i > Len(l) THEN [m |-> out, rem |-> rem]
    ELSE Shift(l, s, i + 1, (rem * Base + l[i]) % 2^s,
               Append(out, (rem * Base + l[i]) \div 2^s))

\* the least k with h * 2^k >= d
RECURSIVE Scale(_, _)
Scale(h, d) == IF h >= d THEN 0 ELSE 1 + Scale(2 * h, d)

\* the greatest s with 2^s <= n
RECURSIVE Log2(_)
Log2(n) == IF n < 2 THEN 0 ELSE 1 + Log2(n \div 2)

\* m * 2^e, or 2^(MantDig-1) * 2^(e+1) when rounding up carried m to
\* 2^MantDig
Renorm(m, e) ==
    IF m[1] = 1 THEN [m |-> m, e |-> e]
    ELSE [m |-> [i \in 1..Len(m) |-> IF i = 1 THEN 1 ELSE 0], e |-> e + 1]

\* the float nearest to l * 2^e, l of MantDig bits or more
FloatOf(l, e) ==
    LET s == Log2(l[1])
        sh == Shift(l, s, 1, 0, <<>>)
        roundUp == \/ 2 * sh.rem > 2^s
                   \/ 2 * sh.rem = 2^s /\ sh.m[Len(sh.m)] % 2 = 1
    IN  Renorm(IF roundUp THEN LimbsInc(sh.m) ELSE sh.m, e + s)

\* n more limbs of the quotient r / d for r < d, and the remainder
RECURSIVE DivLimbs(_, _, _, _)
DivLimbs(r, d, n, out) ==
    IF n = 0 THEN [m |-> out, rem |-> r]
    ELSE DivLimbs((r * Base) % d, d, n - 1, Append(out, (r * Base) \div d))

\* h / d for integers 0 < h <= d
FloatDiv(h, d) ==
    LET k == Scale(h, d)
        q == DivLimbs(h * 2^k - d, d, (MantDig - 1) \div LimbBits, <<1>>)
        roundUp == \/ 2 * q.rem > d
                   \/ 2 * q.rem = d /\ q.m[Len(q.m)] % 2 = 1
    IN  Renorm(IF roundUp THEN LimbsInc(q.m) ELSE q.m, 1 - k - MantDig)

\* x * 100
FloatTimes100(x) == FloatOf(LimbsTimes100(x.m), x.e)

\* round(x, 2) for 0 < x <= 100, in hundredths: the integer nearest to the
\* exact value of 100 x, ties to even.  100 x = p * 2^e; j is p / 2^(-e-1)
\* without its fraction, so that the last bit of j is the half.
Round2(x) ==
    LET p == LimbsTimes100(x.m)
        g == 0 - x.e - 1
        kept == SubSeq(p, 1, Len(p) - g \div LimbBits)
        v == LimbsToNat(kept, 1, 0)
        j == v \div 2^(g % LimbBits)
        sticky == \/ v % 2^(g % LimbBits) # 0
                  \/ \E i \in (Len(kept) + 1)..Len(p) : p[i] # 0
    IN  IF j % 2 = 1 /\ (sticky \/ (j \div 2) % 2 = 1) THEN j \div 2 + 1
        ELSE j \div 2

\* the hit rate cut off after two decimals instead of rounded
hit_rate_trunc(hits, misses) ==
    LET d == IF hits + misses < 1 THEN 1 ELSE hits + misses
    IN  (hits * 10000) \div d

\* round(hits / max(1, hits + misses) * 100, 2), in hundredths of a percent
hit_rate(hits, misses) ==
    LET d == IF hits + misses < 1 THEN 1 ELSE hits + misses
    IN  IF hits = 0 THEN 0
        ELSE Round2(FloatTimes100(FloatDiv(hits, d)))

\* get_operation_stats: info("stats") and the derived hit rate
get_operation_stats(hits, misses, st, isUp) ==
    IF ~isUp THEN Unavailable(<<Call("INFO", <<"stats">>, FALSE, <<>>)>>, st)
    ELSE [Result(200, "", <<Call("INFO", <<"stats">>, TRUE, <<hits, misses>>)>>, st)
             EXCEPT !.rate = hit_rate(hits, misses)]

\* glob match of the store's SCAN ... MATCH: "*", "?" and literal characters
\* (the pattern is a plain sequence of characters)
RECURSIVE Glob(_, _)
Glob(pat, s) ==
    IF pat = <<>> THEN s = <<>>
    ELSE IF Head(pat) = "*"
         THEN Glob(Tail(pat), s) \/ (s # <<>> /\ Glob(pat, Rest(s)))
    ELSE s # <<>> /\ (Head(pat) = "?" \/ Head(pat) = First(s))
                  /\ Glob(Tail(pat), Rest(s))

\* ---------------------------------------------------------------- inputs
KeyA == Rep("a", HexLen)
KeyB == Rep("1", HexLen)
ValB == Rep("b", HexLen)
ValC == Rep("c", HexLen)

\* path keys of the requests: canonical, upper case, too short
RawKeys == {KeyA, Rep("A", HexLen), Rep("a", HexLen - 1)}

\* PUT bodies: mixed case, a valid value between whitespace (curl's trailing
\* newline), a non-hex last character, bytes that are not UTF-8
Bodies ==
    {Concat(Rep("B", HexLen - 1), Rep("b", 1)),
     Concat(Rep(" ", 1), Concat(ValC, Rep("\n", 1))),
     Concat(Rep("c", HexLen - 1), Rep("g", 1)),
     Rep(BadByte, 1)}

\* the (key, value) pairs bulk payloads are made of: three valid ones (two of
\* them case variants of one key), a key too long, a value that is no string
BulkPairs ==
    {<<KeyA, Str(Rep("B", HexLen))>>,
     <<Rep("A", HexLen), Str(ValC)>>,
     <<KeyB, Str(ValC)>>,
     <<Rep("1", HexLen + 1), Str(ValB)>>,
     <<ValB, NonStr>>}

\* a JSON object: pairs in insertion order, no raw key twice
IsMapping(pl) == \A i, j \in 1..Len(pl) : i # j => pl[i][1] # pl[j][1]

Payloads ==
    {pl \in UNION {[1..n -> BulkPairs] : n \in 0..MaxBulk} : IsMapping(pl)}

Patterns == {<<"*">>, <<"a", "*">>}

Sections == {"", "memory"}

\* the store's hash table as SCAN walks it: one canonical key per slot
ScanSlots == <<KeyA, KeyB>>

\* one SCAN call of scan_iter: the keys of the slot under the cursor that
\* match, and whether the cursor it returns is 0 (the iteration is over)
StoreScan(st, pat, cursor) ==
    [keys |-> {k \in DOMAIN st : k = ScanSlots[cursor] /\ Glob(pat, k)},
     last |-> cursor >= Len(ScanSlots)]

\* the scan_iter loop of get_pattern_count: SCAN, count += 1 for every key of
\* the batch, until the cursor is 0; the failAt-th SCAN raises RedisError
RECURSIVE ScanLoop(_, _, _, _, _, _)
ScanLoop(pat, cursor, count, log, failAt, st) ==
    LET got == StoreScan(st, pat, cursor)
        n == count + Cardinality(got.keys)
    IN  IF failAt = cursor
        THEN Unavailable(Append(log, Call("SCAN", <<>>, FALSE, <<>>)), st)
        ELSE IF got.last
             THEN [Result(200, "", Append(log, Call("SCAN", <<>>, TRUE, <<n - count>>)), st)
                      EXCEPT !.stored = n]
        ELSE ScanLoop(pat, cursor + 1, n,
                      Append(log, Call("SCAN", <<>>, TRUE, <<n - count>>)), failAt, st)

\* get_pattern_count: count = 0, then the loop (failAt = 0: no SCAN fails)
get_pattern_count(pat, failAt, st) == ScanLoop(pat, 1, 0, <<>>, failAt, st)

\* the store calls of get_all_stats before its scan: info(), info("memory"),
\* info("stats"), dbsize(); the failAt-th of them raises RedisError
StatsCalls(hits, misses, failAt, st) ==
    LET all == <<Call("INFO", <<"">>, failAt # 1, <<>>),
                 Call("INFO", <<"memory">>, failAt # 2, <<>>),
                 Call("INFO", <<"stats">>, failAt # 3,
                      IF failAt # 3 THEN <<hits, misses>> ELSE <<>>),
                 Call("DBSIZE", <<>>, failAt # 4,
                      IF failAt # 4 THEN <<StoreDbsize(st)>> ELSE <<>>)>>
    IN  IF failAt \in 1..Len(all) THEN SubSeq(all, 1, failAt) ELSE all

\* get_all_stats keeping the partial count of a scan that failed
get_all_stats_partial(hits, misses, failAt, st) ==
    LET calls == StatsCalls(hits, misses, failAt, st)
        total_keys == StoreDbsize(st)
        scan == ScanLoop(<<"*">>, 1, 0, <<>>, failAt - Len(calls), st)
        counted ==
            Cardinality({k \in DOMAIN st : \E i \in 1..Len(scan.log) :
                             scan.log[i].ok /\ k = ScanSlots[i]})
    IN  IF ~calls[Len(calls)].ok THEN Unavailable(calls, st)
        ELSE [Result(200, "", calls \o scan.log, st)
                 EXCEPT !.stored = total_keys,
                        !.scanned = IF scan.status = 200 THEN scan.stored
                                    ELSE counted,
                        !.rate = hit_rate(hits, misses)]

\* get_all_stats: three info calls and dbsize, any failure is 503; then the
\* scan, whose failure only sets hex_keys_count to total_keys
get_all_stats(hits, misses, failAt, st) ==
    LET calls == StatsCalls(hits, misses, failAt, st)
        total_keys == StoreDbsize(st)
        scan == ScanLoop(<<"*">>, 1, 0, <<>>, failAt - Len(calls), st)
    IN  IF ~calls[Len(calls)].ok THEN Unavailable(calls, st)
        ELSE [Result(200, "", calls \o scan.log, st)
                 EXCEPT !.stored = total_keys,
                        !.scanned = IF scan.status = 200 THEN scan.stored
                                    ELSE total_keys,
                        !.rate = hit_rate(hits, misses)]

\* the number of store calls of get_all_stats when none fails
StatsCallCount == Len(StatsCalls(0, 0, 0, <<>>)) + Len(ScanSlots)

\* ----------------------------------------------------------------- state
VARIABLES
    store,      \* the Redis store: key -> value, over the keys it holds
    up,         \* whether a store call made now comes back (else RedisError)
    inflight,   \* the deletes between their EXISTS and their DEL (a bag)
    resp,       \* the request that completed last, and its response
    hist,       \* per canonical key: what the last successful request did
    norm,       \* a call of normalize_hex on its own: argument and results
    counters,   \* keyspace_hits and keyspace_misses, where a run fixes them
    race        \* where a run keeps them: the statuses of its deletes (a bag)

vars == <<store, up, inflight, resp, hist, norm, counters, race>>

CanonKeys == {ScanSlots[i] : i \in 1..Len(ScanSlots)}

\* a worker process is free to take a request
HasIdleWorker == BagCardinality(inflight) < NumWorkers

\* a completed request: what was asked and what came back
Response(op, key, body, payload, r) ==
    [op |-> op, key |-> key, body |-> body, payload |-> payload,
     status |-> r.status, detail |-> r.detail, value |-> r.value,
     stored |-> r.stored, scanned |-> r.scanned, rate |-> r.rate,
     log |-> r.log]

NoResponse ==
    Response("none", <<>>, <<>>, <<>>, Result(0, "", <<>>, <<>>))

Never == [state |-> "never", v |-> <<>>]

NoNorm == [phase |-> "none", value |-> NonStr, out |-> <<>>, again |-> <<>>]

NoCounters == [hits |-> 0, misses |-> 0]

NoRace == [on |-> FALSE, done |-> EmptyBag]

\* race after a delete request came back with the status
Raced(status) ==
    IF race.on THEN [race EXCEPT !.done = @ (+) SetToBag({status})] ELSE race

Init ==
    /\ store = <<>>
    /\ up = TRUE
    /\ inflight = EmptyBag
    /\ resp = NoResponse
    /\ hist = [k \in CanonKeys |-> Never]
    /\ norm = NoNorm
    /\ counters = NoCounters
    /\ race = NoRace

\* the history after a successful request did `what` (with value v) to the
\* entry of raw key `key`
Did(h, what, key, v) ==
    IF Lower(key) \in DOMAIN h
    THEN [h EXCEPT ![Lower(key)] = [state |-> what, v |-> v]]
    ELSE h

RECURSIVE DidAll(_, _)
DidAll(h, payload) ==
    IF payload = <<>> THEN h
    ELSE DidAll(Did(h, "bulk", Head(payload)[1], Lower(Head(payload)[2].s)),
                Tail(payload))

\* -------------------------------------------------------------- requests
\* GET /health
Health ==
    /\ HasIdleWorker
    /\ resp' = Response("health", <<>>, <<>>, <<>>, health(store, up))
    /\ UNCHANGED <<store, up, inflight, hist, norm, counters, race>>

\* PUT /{key}
PutValue(key, body) ==
    /\ HasIdleWorker
    /\ LET r == put_value(key, body, store, up)
       IN  /\ resp' = Response("put", key, body, <<>>, r)
           /\ store' = r.store
           /\ hist' = IF r.status = 201
                      THEN Did(hist, "put", key, Lower(body))
                      ELSE hist
    /\ UNCHANGED <<up, inflight, norm, counters, race>>

\* GET /{key}
GetValue(key) ==
    /\ HasIdleWorker
    /\ resp' = Response("get", key, <<>>, <<>>, get_value(key, store, up))
    /\ UNCHANGED <<store, up, inflight, hist, norm, counters, race>>

\* DELETE /{key}, up to and including redis_client.exists(key)
DeleteCheck(key) ==
    /\ HasIdleWorker
    /\ LET r == delete_value_check(key, store, up)
       IN  IF r.status = Pending
           THEN /\ inflight' = inflight (+) SetToBag(
                       {[key |-> key, k |-> r.log[1].args[1], log |-> r.log]})
                /\ UNCHANGED <<resp, race>>
           ELSE /\ resp' = Response("delete", key, <<>>, <<>>, r)
                /\ race' = Raced(r.status)
                /\ UNCHANGED inflight
    /\ UNCHANGED <<store, up, hist, norm, counters>>

\* DELETE /{key}, from redis_client.delete(key) on
DeleteCall(d) ==
    /\ BagIn(d, inflight)
    /\ LET r == delete_value_delete(d.k, d.log, store, up)
       IN  /\ resp' = Response("delete", d.key, <<>>, <<>>, r)
           /\ store' = r.store
           /\ hist' = IF r.status = 200
                      THEN Did(hist, "deleted", d.key, <<>>)
                      ELSE hist
           /\ race' = Raced(r.status)
    /\ inflight' = inflight (-) SetToBag({d})
    /\ UNCHANGED <<up, norm, counters>>

\* POST /bulk
BulkPut(payload) ==
    /\ HasIdleWorker
    /\ LET r == bulk_put(payload, store, up)
       IN  /\ resp' = Response("bulk", <<>>, <<>>, payload, r)
           /\ store' = r.store
           /\ hist' = IF r.status = 200 THEN DidAll(hist, payload) ELSE hist
    /\ UNCHANGED <<up, inflight, norm, counters, race>>

\* GET /stats/count
KeyCount ==
    /\ HasIdleWorker
    /\ resp' = Response("count", <<>>, <<>>, <<>>, get_key_count(store, up))
    /\ UNCHANGED <<store, up, inflight, hist, norm, counters, race>>

\* GET /stats/count/{pattern}.  The worker's SCAN calls are taken in one
\* step: the first fails exactly when the store is down, and a later one
\* fails when the store goes down during the iteration.
PatternCount(pat, failAt) ==
    /\ HasIdleWorker
    /\ IF up THEN failAt # 1 ELSE failAt = 1
    /\ resp' = Response("pattern", <<>>, <<>>, <<>>,
                        get_pattern_count(pat, failAt, store))
    /\ up' = (failAt = 0)
    /\ UNCHANGED <<store, inflight, hist, norm, counters, race>>

\* GET /stats/info?section=
RedisInfo(section) ==
    /\ HasIdleWorker
    /\ resp' = Response("info", <<>>, <<>>, <<>>,
                        get_redis_info(section, store, up))
    /\ UNCHANGED <<store, up, inflight, hist, norm, counters, race>>

\* GET /stats/memory
MemoryStats ==
    /\ HasIdleWorker
    /\ resp' = Response("memory", <<>>, <<>>, <<>>, get_memory_stats(store, up))
    /\ UNCHANGED <<store, up, inflight, hist, norm, counters, race>>

\* GET /stats/operations; the store reports the counters it has
OperationStats(hits, misses) ==
    /\ HasIdleWorker
    /\ resp' = Response("operations", <<>>, <<>>, <<>>,
                        get_operation_stats(hits, misses, store, up))
    /\ UNCHANGED <<store, up, inflight, hist, norm, counters, race>>

\* GET /stats.  As in PatternCount the worker's store calls are taken in one
\* step: the first fails exactly when the store is down, a later one when
\* the store goes down on the way.
AllStats(hits, misses, failAt) ==
    /\ HasIdleWorker
    /\ IF up THEN failAt # 1 ELSE failAt = 1
    /\ resp' = Response("stats", <<>>, <<>>, <<>>,
                        get_all_stats(hits, misses, failAt, store))
    /\ up' = (failAt = 0)
    /\ UNCHANGED <<store, inflight, hist, norm, counters, race>>

\* the store stops answering: connection refused, reset, or socket_timeout
StoreFails ==
    /\ up
    /\ up' = FALSE
    /\ UNCHANGED <<store, inflight, resp, hist, norm, counters, race>>

StoreRecovers ==
    /\ ~up
    /\ up' = TRUE
    /\ UNCHANGED <<store, inflight, resp, hist, norm, counters, race>>

\* a worker takes a request
Begin ==
    \/ Health
    \/ \E key \in RawKeys, body \in Bodies : PutValue(key, body)
    \/ \E key \in RawKeys : GetValue(key)
    \/ \E key \in RawKeys : DeleteCheck(key)
    \/ \E payload \in Payloads : BulkPut(payload)
    \/ KeyCount
    \/ \E pat \in Patterns, failAt \in 0..Len(ScanSlots) : PatternCount(pat, failAt)
    \/ \E section \in Sections : RedisInfo(section)
    \/ MemoryStats
    \/ \E hits, misses \in 0..MaxCounter : OperationStats(hits, misses)
    \/ \E hits \in 0..MaxCounter, failAt \in 0..StatsCallCount :
           AllStats(hits, MaxCounter - hits, failAt)

\* a worker in the middle of a delete goes on
Continue == \E d \in BagToSet(inflight) : DeleteCall(d)

Next == Begin \/ Continue \/ StoreFails \/ StoreRecovers

Spec == Init /\ [][Next]_vars

\* requests issued one after another: none begins while one is in flight
NextSeq ==
    \/ inflight = EmptyBag /\ Begin
    \/ Continue
    \/ StoreFails
    \/ StoreRecovers

SpecSeq == Init /\ [][NextSeq]_vars

\* ------------------------------------------------- normalize_hex by itself
NormChars == {"a", "A", "f", "F", "0", "9", "g", "G", "Z", " ", "-"}

NormLens == {0, 1, HexLen - 1, HexLen, HexLen + 1, 2 * HexLen}

\* arguments of normalize_hex: one character repeated, two and three runs
\* adding up to HexLen, and a value that is no string
NormInputs ==
    {Str(Rep(c, n)) : c \in NormChars, n \in NormLens}
    \cup {Str(Concat(Rep(c, i), Rep(d, HexLen - i))) :
              c \in NormChars, d \in NormChars, i \in {1, HexLen \div 2}}
    \cup {Str(Concat(Rep("a", HexLen \div 2 - 1), Concat(Rep(c, 1), Rep("B", HexLen \div 2)))) :
              c \in NormChars}
    \cup {Str(Concat(Rep("a", HexLen), Rep(c, 1))) : c \in Whitespace}
    \cup {NonStr}

InitNorm ==
    /\ store = <<>>
    /\ up = TRUE
    /\ inflight = EmptyBag
    /\ resp = NoResponse
    /\ hist = [k \in CanonKeys |-> Never]
    /\ norm \in {[NoNorm EXCEPT !.phase = "in", !.value = v] : v \in NormInputs}
    /\ counters = NoCounters
    /\ race = NoRace

\* normalize_hex(value)
Normalize ==
    /\ norm.phase = "in"
    /\ norm' = [norm EXCEPT !.phase = "once", !.out = normalize_hex(norm.value)]
    /\ UNCHANGED <<store, up, inflight, resp, hist, counters, race>>

\* normalize_hex(normalize_hex(value))
NormalizeAgain ==
    /\ norm.phase = "once"
    /\ norm.out.ok
    /\ norm' = [norm EXCEPT !.phase = "twice",
                            !.again = normalize_hex(Str(norm.out.v))]
    /\ UNCHANGED <<store, up, inflight, resp, hist, counters, race>>

NextNorm == Normalize \/ NormalizeAgain

SpecNorm == InitNorm /\ [][NextNorm]_vars

\* ----------------------------------------- operation stats by themselves
\* the store reports any counters up to MaxRate, the same throughout a run
InitRate ==
    /\ store = <<>>
    /\ up = TRUE
    /\ inflight = EmptyBag
    /\ resp = NoResponse
    /\ hist = [k \in CanonKeys |-> Never]
    /\ norm = NoNorm
    /\ counters \in [hits : 0..MaxRate, misses : 0..MaxRate]
    /\ race = NoRace

NextRate ==
    \/ OperationStats(counters.hits, counters.misses)
    \/ StoreFails
    \/ StoreRecovers

SpecRate == InitRate /\ [][NextRate]_vars

\* ------------------------------------------------ deletes racing for a key
\* the path keys that name the entry KeyA
RaceKeys == {key \in RawKeys : normalize_hex(Str(key)).v = KeyA}

\* the stores the race starts from: KeyA is there, put by an earlier request
RaceStores ==
    {StoreSet(<<>>, KeyA, v) : v \in {ValB, ValC}}
    \cup {StoreSet(StoreSet(<<>>, KeyB, ValB), KeyA, v) : v \in {ValB, ValC}}

InitRace ==
    /\ store \in RaceStores
    /\ up = TRUE
    /\ inflight = EmptyBag
    /\ resp = NoResponse
    /\ hist = [k \in CanonKeys |->
                  IF k \in DOMAIN store THEN [state |-> "put", v |-> store[k]]
                  ELSE Never]
    /\ norm = NoNorm
    /\ counters = NoCounters
    /\ race = [on |-> TRUE, done |-> EmptyBag]

\* the delete requests of the race so far, completed or in flight
RaceSize == BagCardinality(race.done) + BagCardinality(inflight)

\* up to MaxDeletes delete requests for KeyA, reads of it in between; the
\* store stays reachable and nothing writes
NextRace ==
    \/ RaceSize < MaxDeletes /\ \E key \in RaceKeys : DeleteCheck(key)
    \/ Continue
    \/ \E key \in RaceKeys : GetValue(key)

SpecRace == InitRace /\ [][NextRace]_vars

\* ---------------------------------------------------------------- claims
\* What the specification calls a valid Key or Value (any letter case), and
\* its canonical form, stated without the code's regular expression.
SpecHexChars ==
    {"0", "1", "2", "3", "4", "5", "6", "7", "8", "9",
     "a", "b", "c", "d", "e", "f", "A", "B", "C", "D", "E", "F"}
SpecLowerChars ==
    {"0", "1", "2", "3", "4", "5", "6", "7", "8", "9",
     "a", "b", "c", "d", "e", "f"}
IsHex32(s) ==
    /\ StrLen(s) = HexLen
    /\ \A i \in 1..Len(s) : s[i][1] \in SpecHexChars
IsCanonical(s) ==
    /\ StrLen(s) = HexLen
    /\ \A i \in 1..Len(s) : s[i][1] \in SpecLowerChars
ValidJson(value) == value.isStr /\ IsHex32(value.s)
ValidPair(pair) == IsHex32(pair[1]) /\ ValidJson(pair[2])
AllPairsValid(pl) == \A i \in 1..Len(pl) : ValidPair(pl[i])

\* the commands whose arguments are keys and values
KeyedCmds == {"SET", "GET", "EXISTS", "DEL", "EXEC"}
CanonicalCall(c) ==
    c.cmd \in KeyedCmds => \A i \in 1..Len(c.args) : IsCanonical(c.args[i])

\* the completed request was handed a malformed key or value
MalformedRequest ==
    \/ resp.op \in {"put", "get", "delete"} /\ ~IsHex32(resp.key)
    \/ resp.op = "put" /\ ~IsHex32(resp.body)
    \/ resp.op = "bulk" /\ resp.payload # <<>> /\ ~AllPairsValid(resp.payload)

\* C1: every key and value passed to a store call is canonical (32 lowercase
\* hex characters), and a request whose key or value is malformed fails with
\* 400 "Invalid hex format" having made no store call.
C1_CanonicalOrRejected ==
    /\ \A i \in 1..Len(resp.log) : CanonicalCall(resp.log[i])
    /\ \A d \in BagToSet(inflight) :
           \A i \in 1..Len(d.log) : CanonicalCall(d.log[i])
    /\ MalformedRequest =>
           /\ resp.status = 400
           /\ resp.detail = "Invalid hex format"
           /\ resp.log = <<>>

\* the step is a POST /bulk of the payload the response names
BulkStep == resp'.op = "bulk" /\ BulkPut(resp'.payload)

\* C2: a non-empty bulk mapping with a malformed key or value at any position
\* fails with 400 "Invalid hex format", makes no store call and leaves the
\* store as it was: none of its valid pairs is written.
C2_BulkAllOrNone ==
    [][(BulkStep /\ resp'.payload # <<>> /\ ~AllPairsValid(resp'.payload)) =>
           /\ resp'.status = 400
           /\ resp'.detail = "Invalid hex format"
           /\ resp'.log = <<>>
           /\ store' = store]_vars

\* C2 witness: a mapping whose first pair is valid and whose second is
\* malformed was refused while the store was reachable.
C2_Witness ==
    /\ resp.op = "bulk"
    /\ Len(resp.payload) = 2
    /\ ValidPair(resp.payload[1])
    /\ ~ValidPair(resp.payload[2])
    /\ resp.status = 400
    /\ up

\* the step is a GET /{key} of the key the response names
GetStep == resp'.op = "get" /\ GetValue(resp'.key)

\* C3: with the store reachable, after a successful write(k, v) of a valid
\* key and value in any letter case, and no later write or delete of that
\* key, read(k') for any case variant k' of k returns v in lower case.
C3_RoundTrip ==
    [][(/\ GetStep
        /\ up
        /\ IsHex32(resp'.key)
        /\ hist[Lower(resp'.key)].state = "put"
        /\ IsHex32(hist[Lower(resp'.key)].v)) =>
           /\ resp'.status = 200
           /\ resp'.value = hist[Lower(resp'.key)].v
           /\ IsCanonical(resp'.value)]_vars

\* C3 witness: the key written in lower case with a mixed-case value was read
\* in upper case, and the value came back in lower case.
C3_Witness ==
    /\ resp.op = "get"
    /\ resp.key = Rep("A", HexLen)
    /\ hist[KeyA].state = "put"
    /\ resp.status = 200
    /\ resp.value = ValB

\* the step is the EXISTS part of a DELETE /{key} that goes on to its DEL
DeleteGoesOn(key) ==
    /\ DeleteCheck(key)
    /\ BagCardinality(inflight') = BagCardinality(inflight) + 1

\* the step is a DELETE /{key} that ends at its EXISTS
DeleteEndsAtCheck == resp'.op = "delete" /\ DeleteCheck(resp'.key) /\ inflight' = inflight

\* C4: requests issued one after another, store reachable: a delete of an
\* existing key goes on to its DEL, returns 200 and removes the entry; after
\* that, with no write of the key in between, a delete and a read of the key
\* both fail with 404.
C4_DeleteOnce ==
    [][/\ \A key \in RawKeys :
              (DeleteCheck(key) /\ up /\ IsHex32(key) /\ Lower(key) \in DOMAIN store)
                  => DeleteGoesOn(key)
       /\ \A d \in BagToSet(inflight) :
              (DeleteCall(d) /\ up) =>
                  /\ resp'.status = 200
                  /\ d.k \in DOMAIN store
                  /\ d.k \notin DOMAIN store'
       /\ (DeleteEndsAtCheck /\ up /\ IsHex32(resp'.key)
              /\ hist[Lower(resp'.key)].state = "deleted") => resp'.status = 404
       /\ (GetStep /\ up /\ IsHex32(resp'.key)
              /\ hist[Lower(resp'.key)].state = "deleted") => resp'.status = 404
      ]_vars

\* C4 witness: a second delete of a key whose delete had succeeded got 404.
C4_Witness ==
    /\ resp.op = "delete"
    /\ resp.status = 404
    /\ IsHex32(resp.key)
    /\ hist[Lower(resp.key)].state = "deleted"

\* the delete's EXISTS reported the key present and its DEL removed nothing
CheckedButNoneRemoved ==
    /\ resp.op = "delete"
    /\ Len(resp.log) = 2
    /\ resp.log[1].cmd = "EXISTS" /\ resp.log[1].ok /\ resp.log[1].reply = <<1>>
    /\ resp.log[2].cmd = "DEL" /\ resp.log[2].ok /\ resp.log[2].reply = <<0>>

\* C5: a delete whose existence check reported the key present and whose
\* delete call removed nothing fails with 500 "Failed to delete key", never
\* with 404, 200 or 503.
C5_DeleteMismatch ==
    CheckedButNoneRemoved =>
        /\ resp.status = 500
        /\ resp.detail = "Failed to delete key"

\* C5 witness: another worker removed the key between the check and the
\* delete call.
C5_Witness == CheckedButNoneRemoved /\ resp.status = 500

\* the requests C6 is about
C6Ops ==
    {"health", "put", "get", "delete", "bulk", "count", "pattern", "info",
     "memory", "operations"}

\* C6: when a store call of a request fails (transport error or timeout),
\* the request fails with 503 "Redis unavailable"; the failed call is the
\* request's last store call: it is not retried and none follows it.
C6_StoreUnavailable ==
    resp.op \in C6Ops =>
        \A i \in 1..Len(resp.log) :
            ~resp.log[i].ok =>
                /\ resp.status = 503
                /\ resp.detail = "Redis unavailable"
                /\ i = Len(resp.log)

\* C6 witness: a delete whose EXISTS came back and whose DEL failed.
C6_Witness ==
    /\ resp.op = "delete"
    /\ Len(resp.log) = 2
    /\ resp.log[1].ok
    /\ ~resp.log[2].ok
    /\ resp.status = 503

\* C7: read(k) of a valid key is 404 exactly when the lookup came back with
\* no value; a key never written, or deleted since, gives 404 while the
\* store is reachable; a failed lookup gives 503, never 404, whether or not
\* the store holds the key.
C7_NotFound ==
    [][(GetStep /\ IsHex32(resp'.key)) =>
           /\ resp'.status = 404 <=> (up /\ Lower(resp'.key) \notin DOMAIN store)
           /\ resp'.status = 404 <=>
                  (resp'.log[1].ok /\ resp'.log[1].reply = <<>>)
           /\ (up /\ hist[Lower(resp'.key)].state \in {"never", "deleted"})
                  => resp'.status = 404
           /\ ~up => (resp'.status = 503 /\ ~resp'.log[1].ok)]_vars

\* C7 witness: a read of a key the store holds, during an outage, got 503.
C7_Witness ==
    /\ resp.op = "get"
    /\ IsHex32(resp.key)
    /\ Lower(resp.key) \in DOMAIN store
    /\ ~up
    /\ resp.status = 503

\* the entries a successful batch wrote: the keys of its SET commands
EntriesWritten(call) ==
    {call.args[i] : i \in {j \in 1..Len(call.args) : j % 2 = 1}}

\* C8: a bulk write of a non-empty mapping of valid pairs (keys in any
\* letter case) whose batch succeeds returns a stored count equal to the
\* number of entries written and to the size of the mapping, and the key
\* count that follows includes every entry.
C8_StoredCount ==
    (resp.op = "bulk" /\ resp.status = 200) =>
        /\ resp.stored = Len(resp.payload)
        /\ resp.stored = Cardinality(EntriesWritten(resp.log[1]))
        /\ StoreDbsize(store) >= resp.stored

\* the step is a POST /bulk of an empty mapping
EmptyBulkStep == BulkStep /\ resp'.payload = <<>>

\* C10: a bulk write of an empty mapping fails with 400 "Empty payload",
\* makes no store call and leaves the store as it was, also while the store
\* is unavailable.
C10_EmptyPayload ==
    [][EmptyBulkStep =>
           /\ resp'.status = 400
           /\ resp'.detail = "Empty payload"
           /\ resp'.log = <<>>
           /\ store' = store]_vars

\* C10 witness: an empty mapping was refused during an outage.
C10_Witness ==
    /\ resp.op = "bulk"
    /\ resp.payload = <<>>
    /\ resp.status = 400
    /\ ~up

\* the lowercase form of a valid value: no upper-case letter is left
NoUpper(s) == \A i \in 1..Len(s) : s[i][1] \in SpecLowerChars

\* C9: normalize fails for every argument that is not a string of exactly 32
\* hex characters (empty, wrong length, a non-hex character, not a string);
\* for a valid one it returns the lowercase form, and normalizing the result
\* again returns it unchanged.
C9_Normalize ==
    /\ norm.phase \in {"once", "twice"} =>
           /\ norm.out.ok <=> ValidJson(norm.value)
           /\ norm.out.ok =>
                  /\ norm.out.v = Lower(norm.value.s)
                  /\ StrLen(norm.out.v) = HexLen
                  /\ NoUpper(norm.out.v)
    /\ norm.phase = "twice" => (norm.again.ok /\ norm.again.v = norm.out.v)

\* C9 witness: a valid mixed-case string was normalized twice.
C9_Witness ==
    /\ norm.phase = "twice"
    /\ norm.out.v # norm.value.s
    /\ norm.again = norm.out

\* the store calls of a /stats response by command
StatsFailed(cmds) ==
    \E i \in 1..Len(resp.log) : resp.log[i].cmd \in cmds /\ ~resp.log[i].ok

\* C11: in allStats a failed info or dbsize call fails the whole call with
\* 503 "Redis unavailable" and none of the stats is returned; a failure of
\* the scan alone leaves the call a success whose scan-based key count is
\* the dbsize total obtained in the same call.
C11_AllStats ==
    resp.op = "stats" =>
        /\ StatsFailed({"INFO", "DBSIZE"}) =>
               /\ resp.status = 503
               /\ resp.detail = "Redis unavailable"
               /\ resp.stored = 0 /\ resp.scanned = 0 /\ resp.rate = 0
               /\ \A i \in 1..Len(resp.log) : resp.log[i].cmd # "SCAN"
        /\ (StatsFailed({"SCAN"}) /\ ~StatsFailed({"INFO", "DBSIZE"})) =>
               /\ resp.status = 200
               /\ \E i \in 1..Len(resp.log) :
                      /\ resp.log[i].cmd = "DBSIZE"
                      /\ resp.log[i].reply = <<resp.stored>>
               /\ resp.scanned = resp.stored
               /\ resp.stored = Cardinality(DOMAIN store)

\* C11 witness: the scan failed after it had counted one of two entries and
\* the call succeeded.
C11_Witness ==
    /\ resp.op = "stats"
    /\ resp.status = 200
    /\ StatsFailed({"SCAN"})
    /\ \E i \in 1..Len(resp.log) :
           resp.log[i].cmd = "SCAN" /\ resp.log[i].reply = <<1>>
    /\ resp.stored = 2

\* the distance between a / b and the integer n, in units of 1 / (2 b)
Off(n, a, b) == IF n * b >= a THEN 2 * (n * b - a) ELSE 2 * (a - n * b)

\* C12: for the hit and miss counters the store reports, the hit_rate of
\* operationStats is 100 * hits / (hits + misses) rounded to two decimals
\* when hits + misses > 0 (no multiple of 0.01 is nearer to the exact
\* quotient) and 0 when both are 0, and lies between 0 and 100.  The rate
\* is counted in hundredths.
C12_HitRate ==
    (resp.op = "operations" /\ resp.status = 200) =>
        LET hits == resp.log[1].reply[1]
            misses == resp.log[1].reply[2]
        IN  /\ hits + misses > 0 =>
                   Off(resp.rate, 100 * 100 * hits, hits + misses)
                       <= hits + misses
            /\ hits + misses = 0 => resp.rate = 0
            /\ resp.rate \in 0..(100 * 100)

\* C12 witness: 87 hits and 73 misses, 54.375 percent, came back as 54.37.
C12_Witness ==
    /\ resp.op = "operations"
    /\ resp.status = 200
    /\ resp.log[1].reply = <<87, 73>>
    /\ resp.rate = 5437

\* the delete requests of the race that came back with the status
Came(status) == CopiesIn(status, race.done)

\* C13: of two or more delete requests racing for an entry that is there,
\* with the store reachable and no write, exactly one ends 200 and every
\* other one 404 or 500, however their store calls interleave; the entry is
\* removed once and no two requests report success.
C13_DeleteRace ==
    race.on =>
        /\ Came(200) <= 1
        /\ Came(200) = 1 <=> KeyA \notin DOMAIN store
        /\ BagToSet(race.done) \subseteq {200, 404, 500}
        /\ (inflight = EmptyBag /\ RaceSize >= 2) =>
               /\ Came(200) = 1
               /\ Came(404) + Came(500) = RaceSize - 1

\* C13 witness: the deletes are through, with each of the three outcomes.
C13_Witness ==
    /\ race.on
    /\ inflight = EmptyBag
    /\ Came(200) = 1
    /\ Came(404) >= 1
    /\ Came(500) >= 1

====
